---- MODULE Spec2Model ----
(***************************************************************************)
(* Model of the rsyslog statistics exporter: the JSON stats parser         *)
(* (rsyslog_stats.go), the producer loop that feeds it (main.go) and the   *)
(* prometheus collector that reads it (collector).                         *)
(*                                                                         *)
(* Go strings are sequences of one-character strings, so that the          *)
(* character-level functions (sanitiseMetricName, splitRight, ParseFloat)  *)
(* are computed and not assumed.  A float64 is a decimal fraction          *)
(* [n |-> numerator, d |-> power of ten], normalised so that equal values  *)
(* are equal records.  A decoded JSON value is a record tagged by its Go   *)
(* dynamic type in field t.                                                *)
(***************************************************************************)
EXTENDS Integers, Sequences, FiniteSets, TLC

(* ---- bounds of the model ---- *)
\* number of lines the producer loop hands to Parse
MaxCalls == 2
\* largest value of the Unix clock
MaxTime == 2
\* number of scrapes the collector serves
\* longest text handed to sanitiseMetricName on its own
MaxNameLen ==
    3

MaxScrapes == 2

(* ---- string constants of the program ---- *)

MetricPrefix ==
    <<"r", "s", "y", "s", "l", "o", "g">>

NameField ==
    <<"n", "a", "m", "e">>

OriginField ==
    <<"o", "r", "i", "g", "i", "n">>

sValues ==
    <<"v", "a", "l", "u", "e", "s">>

sSender ==
    <<"s", "e", "n", "d", "e", "r">>

sMessages ==
    <<"m", "e", "s", "s", "a", "g", "e", "s">>

sOmkafka ==
    <<"o", "m", "k", "a", "f", "k", "a">>

sSenderStat ==
    <<"_", "s", "e", "n", "d", "e", "r", "_", "s", "t", "a", "t">>

sImpstats ==
    <<"i", "m", "p", "s", "t", "a", "t", "s">>

sDynstats ==
    <<"d", "y", "n", "s", "t", "a", "t", "s">>

sDynstatsBucket ==
    <<"d", "y", "n", "s", "t", "a", "t", "s", ".", "b", "u", "c", "k", "e", "t">>

sSenderStatMessages ==
    <<"s", "e", "n", "d", "e", "r", "_", "s", "t", "a", "t", "_", "m", "e", "s", "s", "a", "g", "e", "s">>

(* ---- characters ---- *)
UpperLetters ==
    <<"A","B","C","D","E","F","G","H","I","J","K","L","M",
      "N","O","P","Q","R","S","T","U","V","W","X","Y","Z">>

LowerLetters ==
    <<"a","b","c","d","e","f","g","h","i","j","k","l","m",
      "n","o","p","q","r","s","t","u","v","w","x","y","z">>

Digits ==
    <<"0","1","2","3","4","5","6","7","8","9">>

Range(s) ==
    {s[i] : i \in DOMAIN s}

\* U+212A KELVIN SIGN, one character: unicode.ToLower maps it to "k"
KelvinSign ==
    "U+212A"

\* strings.ToLower on one character
ToLowerChar(c) ==
    IF c \in Range(UpperLetters)
    THEN LowerLetters[CHOOSE i \in DOMAIN UpperLetters : UpperLetters[i] = c]
    ELSE IF c = KelvinSign THEN "k"
    ELSE c

\* the characters the class [^_a-zA-Z0-9] does not match
WordChars ==
    Range(UpperLetters) \cup Range(LowerLetters) \cup Range(Digits) \cup {"_"}

\* value of a decimal digit
DigitVal(c) ==
    (CHOOSE i \in DOMAIN Digits : Digits[i] = c) - 1

(* ---- sanitiseMetricName ---- *)
\* reUnderscores.ReplaceAllLiteralString(nn, "_"): every run of "_" becomes one
RECURSIVE SquashUnderscores(_)
SquashUnderscores(s) ==
    IF Len(s) <= 1 THEN s
    ELSE IF s[1] = "_" /\ s[2] = "_" THEN SquashUnderscores(Tail(s))
    ELSE <<s[1]>> \o SquashUnderscores(Tail(s))

\* strings.TrimRight(nn, "_")
RECURSIVE TrimRightUnderscore(_)
TrimRightUnderscore(s) ==
    IF s # <<>> /\ s[Len(s)] = "_"
    THEN TrimRightUnderscore(SubSeq(s, 1, Len(s) - 1))
    ELSE s

\* sanitiseMetricName without the strip of the trailing underscore
sanitiseMetricNameNoTrim(name) ==
    LET lower == [i \in DOMAIN name |-> ToLowerChar(name[i])]
        nonAlNum == [i \in DOMAIN lower |->
                        IF lower[i] \in WordChars THEN lower[i] ELSE "_"]
    IN  SquashUnderscores(nonAlNum)

sanitiseMetricName(name) ==
    LET lower == [i \in DOMAIN name |-> ToLowerChar(name[i])]
        nonAlNum == [i \in DOMAIN lower |->
                        IF lower[i] \in WordChars THEN lower[i] ELSE "_"]
    IN  TrimRightUnderscore(SquashUnderscores(nonAlNum))

(* ---- splitRight ---- *)
\* strings.LastIndexAny(str, "."), 0-based, -1 when there is no "."
LastIndexDot(str) ==
    LET dots == {i \in DOMAIN str : str[i] = "."}
    IN  IF dots = {} THEN -1
        ELSE (CHOOSE i \in dots : \A j \in dots : j <= i) - 1

\* str[:i], str[i+1:]; slicing with i = -1 is a run-time panic
splitRight(str) ==
    LET i == LastIndexDot(str)
    IN  IF i < 0
        THEN [panic |-> TRUE, left |-> <<>>, right |-> <<>>]
        ELSE [panic |-> FALSE,
              left  |-> SubSeq(str, 1, i),
              right |-> SubSeq(str, i + 2, Len(str))]

(* ---- float64 and JSON values ---- *)
RECURSIVE NormFloat(_, _)
NormFloat(n, d) ==
    IF d > 1 /\ n % 10 = 0 THEN NormFloat(n \div 10, d \div 10)
    ELSE [n |-> n, d |-> d]

\* the float64 n/d, d a power of ten
Float(n, d) ==
    NormFloat(n, d)

\* the float64 values that are no fractions: d is 0
Inf(sign) ==
    [n |-> sign, d |-> 0]

NaN ==
    [n |-> 0, d |-> 0]

JNumber(n, d) ==
    [t |-> "float64", f |-> Float(n, d)]

JString(s) ==
    [t |-> "string", s |-> s]

JBool(b) ==
    [t |-> "bool", b |-> b]

JNull ==
    [t |-> "nil"]

JObject(fields) ==
    [t |-> "map", m |-> fields]

JArray ==
    [t |-> "slice"]

\* the empty Go map
EmptyMap ==
    << >>

\* the architectures of the builds
Archs ==
    {"amd64", "arm64"}

\* the largest and the smallest int, in the width the integers of the
\* model have
MaxInt ==
    32767

MinInt ==
    -32768

\* int(f) of a float64 no int represents: the language leaves the result to
\* the implementation.  CVTTSD2SQ of amd64 gives the smallest int, FCVTZS of
\* arm64 saturates and gives 0 for NaN
IntOutOfRange(f, arch) ==
    IF arch = "amd64" THEN MinInt
    ELSE IF f.n > 0 THEN MaxInt
    ELSE IF f.n < 0 THEN MinInt
    ELSE 0

\* RsyslogStatsValue(float64): conversion to int drops the fraction
RsyslogStatsValue(f, arch) ==
    IF f.d = 0 THEN IntOutOfRange(f, arch)
    ELSE IF f.n >= 0 THEN f.n \div f.d ELSE -((-f.n) \div f.d)

(* ---- strconv.ParseFloat on decimal literals ---- *)
\* [sign] digits [ "." digits ], at least one digit; [sign] "inf" or
\* "infinity" and "nan" in any case of letters; any other text is a syntax
\* error.  Exponents and hexadecimal literals are outside the literals the
\* model's input lines carry.
RECURSIVE DigitsValue(_)
DigitsValue(s) ==
    IF s = <<>> THEN 0
    ELSE 10 * DigitsValue(SubSeq(s, 1, Len(s) - 1)) + DigitVal(s[Len(s)])

RECURSIVE Pow10(_)
Pow10(k) ==
    IF k = 0 THEN 1 ELSE 10 * Pow10(k - 1)

ParseFloat(str) ==
    LET signed == str # <<>> /\ str[1] \in {"+", "-"}
        body == IF signed THEN Tail(str) ELSE str
        dots == {i \in DOMAIN body : body[i] = "."}
        digs == SelectSeq(body, LAMBDA c : c # ".")
        frac == IF dots = {} THEN 0
                ELSE Len(body) - (CHOOSE i \in dots : TRUE)
        ok == /\ Cardinality(dots) <= 1
              /\ digs # <<>>
              /\ \A i \in DOMAIN digs : digs[i] \in Range(Digits)
        mag == DigitsValue(digs)
        lower == [i \in DOMAIN body |-> ToLowerChar(body[i])]
    IN  IF lower \in {<<"i", "n", "f">>,
                      <<"i", "n", "f", "i", "n", "i", "t", "y">>}
        THEN [err |-> "nil",
              rv |-> Inf(IF signed /\ str[1] = "-" THEN -1 ELSE 1)]
        ELSE IF ~signed /\ lower = <<"n", "a", "n">>
        THEN [err |-> "nil", rv |-> NaN]
        ELSE IF ~ok THEN [err |-> "ErrSyntax", rv |-> Float(0, 1)]
        ELSE [err |-> "nil",
              rv |-> Float(IF signed /\ str[1] = "-" THEN -mag ELSE mag,
                           Pow10(frac))]

(* ---- getValue ---- *)
getValue(value) ==
    CASE value.t = "float64" -> [err |-> "nil", rv |-> value.f]
      [] value.t = "string"  -> ParseFloat(value.s)
      [] OTHER               -> [err |-> "ErrSyntax", rv |-> Float(0, 1)]

(* ---- appendMetric ---- *)
\* value.(float64) panics when the dynamic type of value is not float64
appendMetric(m, metricName, labels, value, arch) ==
    LET saneMetricName == sanitiseMetricName(metricName)
        bucket == IF saneMetricName \in DOMAIN m THEN m[saneMetricName]
                  ELSE EmptyMap
    IN  IF value.t # "float64"
        THEN [panic |-> TRUE, m |-> m]
        ELSE [panic |-> FALSE,
              m |-> (saneMetricName :>
                        ((labels :> RsyslogStatsValue(value.f, arch)) @@ bucket))
                    @@ m]

RsyslogStatsLabels(name, value) ==
    [Name |-> name, Value |-> value]

(* ---- record types ---- *)
rtDefault == 0

rtDynstatGlobal == 1

rtDynstatBucket == 2

rtNamed == 3

rtSender == 4

\* strings joined by "_"
Join(a, b) ==
    a \o <<"_">> \o b

\* data[key].(T): the value and whether the assertion holds
HasType(data, key, type) ==
    key \in DOMAIN data /\ data[key].t = type

(* ---- the parsers; order is the order in which range visits the keys,
        arch the architecture the program is built for ---- *)
RECURSIVE DynstatsGlobalLoop(_, _, _, _, _)
DynstatsGlobalLoop(m, metricName, values, order, arch) ==
    IF order = <<>> THEN [panic |-> FALSE, m |-> m, errs |-> <<>>]
    ELSE LET field == Head(order)
             sp == splitRight(field)
             r == appendMetric(m, Join(metricName, sp.right),
                               RsyslogStatsLabels("counter", sp.left),
                               values[field], arch)
         IN  IF sp.panic \/ r.panic
             THEN [panic |-> TRUE, m |-> m, errs |-> <<>>]
             ELSE DynstatsGlobalLoop(r.m, metricName, values, Tail(order), arch)

parseDynstatsGlobal(name, origin, data, order, arch) ==
    LET metricName == Join(Join(MetricPrefix, origin), name)
    IN  IF ~HasType(data, sValues, "map")
        THEN [panic |-> TRUE, m |-> EmptyMap, errs |-> <<>>]
        ELSE DynstatsGlobalLoop(EmptyMap, metricName, data[sValues].m,
                                order, arch)

RECURSIVE DynstatsBucketLoop(_, _, _, _, _)
DynstatsBucketLoop(m, metricName, values, order, arch) ==
    IF order = <<>> THEN [panic |-> FALSE, m |-> m, errs |-> <<>>]
    ELSE LET counter == Head(order)
             r == appendMetric(m, metricName,
                               RsyslogStatsLabels("bucket", counter),
                               values[counter], arch)
         IN  IF r.panic
             THEN [panic |-> TRUE, m |-> m, errs |-> <<>>]
             ELSE DynstatsBucketLoop(r.m, metricName, values, Tail(order), arch)

\* parseDynstatsBucket leaving the record's name out of the metric name
parseDynstatsBucketNoName(name, origin, data, order, arch) ==
    LET metricName == Join(MetricPrefix, origin)
    IN  IF ~HasType(data, sValues, "map")
        THEN [panic |-> TRUE, m |-> EmptyMap, errs |-> <<>>]
        ELSE DynstatsBucketLoop(EmptyMap, metricName, data[sValues].m,
                                order, arch)

parseDynstatsBucket(name, origin, data, order, arch) ==
    LET metricName == Join(Join(MetricPrefix, origin), name)
    IN  IF ~HasType(data, sValues, "map")
        THEN [panic |-> TRUE, m |-> EmptyMap, errs |-> <<>>]
        ELSE DynstatsBucketLoop(EmptyMap, metricName, data[sValues].m,
                                order, arch)

\* data["messages"] of an absent key is the nil interface
parseSenderStats(name, origin, data, order, arch) ==
    LET messages == IF sMessages \in DOMAIN data THEN data[sMessages]
                    ELSE JNull
        g == getValue(messages)
        metricName == Join(MetricPrefix, sSenderStatMessages)
    IN  IF g.err # "nil"
        THEN [panic |-> FALSE, m |-> EmptyMap, errs |-> <<g.err>>]
        ELSE IF ~HasType(data, sSender, "string")
        THEN [panic |-> TRUE, m |-> EmptyMap, errs |-> <<>>]
        ELSE [panic |-> FALSE,
              m |-> appendMetric(EmptyMap, metricName,
                                 RsyslogStatsLabels("sender", data[sSender].s),
                                 [t |-> "float64", f |-> g.rv], arch).m,
              errs |-> <<>>]

\* the loop over the fields, returning at the first field that does not coerce
RECURSIVE CountersLoopAbort(_, _, _, _, _, _, _)
CountersLoopAbort(m, errs, metricName, l, data, order, arch) ==
    IF order = <<>> THEN [panic |-> FALSE, m |-> m, errs |-> errs]
    ELSE LET counter == Head(order)
             g == getValue(data[counter])
         IN  IF counter = NameField \/ counter = OriginField
             THEN CountersLoopAbort(m, errs, metricName, l, data,
                                    Tail(order), arch)
             ELSE IF g.err # "nil"
             THEN [panic |-> FALSE, m |-> m, errs |-> Append(errs, g.err)]
             ELSE CountersLoopAbort(
                      appendMetric(m, Join(metricName, counter), l,
                                   [t |-> "float64", f |-> g.rv], arch).m,
                      errs, metricName, l, data, Tail(order), arch)

\* the loop of parseNamedStats and parseDefault over the fields of data
RECURSIVE CountersLoop(_, _, _, _, _, _, _)
CountersLoop(m, errs, metricName, l, data, order, arch) ==
    IF order = <<>> THEN [panic |-> FALSE, m |-> m, errs |-> errs]
    ELSE LET counter == Head(order)
             g == getValue(data[counter])
         IN  IF counter = NameField \/ counter = OriginField
             THEN CountersLoop(m, errs, metricName, l, data, Tail(order), arch)
             ELSE IF g.err # "nil"
             THEN CountersLoop(m, Append(errs, g.err), metricName, l, data,
                               Tail(order), arch)
             ELSE CountersLoop(
                      appendMetric(m, Join(metricName, counter), l,
                                   [t |-> "float64", f |-> g.rv], arch).m,
                      errs, metricName, l, data, Tail(order), arch)

parseNamedStats(name, origin, data, order, arch) ==
    CountersLoop(EmptyMap, <<>>, Join(MetricPrefix, origin),
                 RsyslogStatsLabels("name", name), data, order, arch)

parseDefault(name, origin, data, order, arch) ==
    CountersLoop(EmptyMap, <<>>, Join(Join(MetricPrefix, origin), name),
                 RsyslogStatsLabels("", <<>>), data, order, arch)

\* rs.parsersByType[rsType](name, origin, data)
parsersByType(rsType, name, origin, data, order, arch) ==
    CASE rsType = rtDynstatGlobal -> parseDynstatsGlobal(name, origin, data, order, arch)
      [] rsType = rtDynstatBucket -> parseDynstatsBucket(name, origin, data, order, arch)
      [] rsType = rtSender        -> parseSenderStats(name, origin, data, order, arch)
      [] rsType = rtNamed         -> parseNamedStats(name, origin, data, order, arch)
      [] rsType = rtDefault       -> parseDefault(name, origin, data, order, arch)

\* the map a parser ranges over
RangedMap(rsType, data) ==
    CASE rsType \in {rtDynstatGlobal, rtDynstatBucket} ->
            IF HasType(data, sValues, "map") THEN data[sValues].m ELSE EmptyMap
      [] rsType = rtSender -> EmptyMap
      [] OTHER -> data

\* the orders in which range may visit the keys of a map
Orders(map) ==
    LET keys == DOMAIN map
        n == Cardinality(keys)
    IN  {o \in [1..n -> keys] : \A i, j \in 1..n : i # j => o[i] # o[j]}

(* ---- identify ---- *)
ErrNameField == "'name' field is required but not found"

ErrOriginField == "'origin' field is required but not found"

\* identify testing the name before the origin when it picks the type
identifyNameFirst(data) ==
    LET nameFound == HasType(data, NameField, "string")
        name == IF nameFound THEN data[NameField].s ELSE <<>>
        e1 == IF nameFound THEN "nil" ELSE ErrNameField
        originFound == HasType(data, OriginField, "string")
        origin == IF originFound THEN data[OriginField].s
                  ELSE IF name = sOmkafka THEN sOmkafka
                  ELSE IF name = sSenderStat THEN sImpstats
                  ELSE <<>>
        e == IF ~originFound /\ name # sOmkafka /\ name # sSenderStat
             THEN ErrOriginField ELSE e1
        st == IF name = sSenderStat THEN rtSender
              ELSE IF origin = sDynstats THEN rtDynstatGlobal
              ELSE IF origin = sDynstatsBucket THEN rtDynstatBucket
              ELSE rtNamed
    IN  [name |-> name, origin |-> origin, st |-> st, e |-> e]

identify(data) ==
    LET nameFound == HasType(data, NameField, "string")
        name == IF nameFound THEN data[NameField].s ELSE <<>>
        e1 == IF nameFound THEN "nil" ELSE ErrNameField
        originFound == HasType(data, OriginField, "string")
        origin == IF originFound THEN data[OriginField].s
                  ELSE IF name = sOmkafka THEN sOmkafka
                  ELSE IF name = sSenderStat THEN sImpstats
                  ELSE <<>>
        e == IF ~originFound /\ name # sOmkafka /\ name # sSenderStat
             THEN ErrOriginField ELSE e1
        st == IF origin = sDynstats THEN rtDynstatGlobal
              ELSE IF origin = sDynstatsBucket THEN rtDynstatBucket
              ELSE IF name = sSenderStat THEN rtSender
              ELSE rtNamed
    IN  [name |-> name, origin |-> origin, st |-> st, e |-> e]

(* ---- json.Unmarshal into map[string]interface{} ---- *)
\* A line is its JSON syntax tree, or "invalid" when it is not JSON.  Only
\* an object or null decodes without error; null leaves the map nil.
Unmarshal(statLine) ==
    CASE statLine.t = "map" -> [err |-> "nil", data |-> statLine.m]
      [] statLine.t = "nil" -> [err |-> "nil", data |-> EmptyMap]
      [] OTHER              -> [err |-> "cannot parse JSON", data |-> EmptyMap]

JInvalid ==
    [t |-> "invalid"]

(* ---- the strings of the input lines ---- *)

sMainQ ==
    <<"m", "a", "i", "n", " ", "Q">>

sCoreQueue ==
    <<"c", "o", "r", "e", ".", "q", "u", "e", "u", "e">>

sGlobal ==
    <<"g", "l", "o", "b", "a", "l">>

sFacility ==
    <<"f", "a", "c", "i", "l", "i", "t", "y">>

sH1 ==
    <<"h", "1">>

sH2 ==
    <<"h", "2">>

kSize ==
    <<"s", "i", "z", "e">>

kFull ==
    <<"f", "u", "l", "l">>

kSubmitted ==
    <<"s", "u", "b", "m", "i", "t", "t", "e", "d">>

kFailed ==
    <<"f", "a", "i", "l", "e", "d">>

kAcked ==
    <<"a", "c", "k", "e", "d">>

kFacAdd ==
    <<"f", "a", "c", ".", "a", "d", "d">>

kFacOps ==
    <<"f", "a", "c", ".", "o", "p", "s">>

kSevAdd ==
    <<"s", "e", "v", ".", "a", "d", "d">>

kNoDot ==
    <<"n", "o", "d", "o", "t">>

kMail ==
    <<"m", "a", "i", "l">>

kAuth ==
    <<"a", "u", "t", "h">>

tOne ==
    <<"1">>

tOneHalf ==
    <<"1", ".", "5">>

tThree ==
    <<"3">>

tFour ==
    <<"4">>

tInf ==
    <<"I", "n", "f">>

tBad ==
    <<"1", ".", "2", ".", "3", ".", "4">>

tText ==
    <<"x">>

sOddOrigin ==
    <<"C", "o", "r", "e", ".", ".", "Q", "_">>

sOddName ==
    <<"G", "-", "1">>

sUnderscore ==
    <<"_">>

sEmpty ==
    << >>

kBangs ==
    <<"!", "!">>

\* a key with a letter outside ASCII, one character of the string
kAccent ==
    <<"c", "a", "f", "U+00E9">>

kFacDot ==
    <<"f", "a", "c", ".">>

kDotAdd ==
    <<".", "a", "d", "d">>

kADotB ==
    <<"a", ".", "b">>

kAUnderB ==
    <<"a", "_", "b">>

kFacAddUpper ==
    <<"f", "a", "c", ".", "A", "D", "D">>

(* ---- input lines ---- *)
\* a Go map literal from a set of <<key, value>> pairs with distinct keys
MapOf(pairs) ==
    [k \in {p[1] : p \in pairs} |-> (CHOOSE p \in pairs : p[1] = k)[2]]

Absent ==
    [t |-> "absent"]

\* a JSON object line from <<key, value>> pairs; Absent drops the key
Line(pairs) ==
    JObject(MapOf({p \in pairs : p[2] # Absent}))

\* lines that are not a JSON object
UndecodableLines ==
    {JInvalid, JArray}

\* records without a usable name or origin
UnidentifiedLines ==
    {JNull,
     Line({<<kSize, JNumber(1, 1)>>}),
     Line({<<OriginField, JString(sCoreQueue)>>, <<kSize, JNumber(1, 1)>>}),
     Line({<<NameField, JString(sMainQ)>>, <<kSize, JNumber(1, 1)>>}),
     Line({<<NameField, JNumber(5, 1)>>, <<OriginField, JString(sDynstats)>>}),
     Line({<<NameField, JString(sMainQ)>>, <<OriginField, JNumber(5, 1)>>})}

SenderLine(origin, sender, messages) ==
    Line({<<NameField, JString(sSenderStat)>>, <<OriginField, origin>>,
          <<sSender, sender>>, <<sMessages, messages>>})

\* _sender_stat records: well-formed, with messages that do not coerce or
\* read as infinity, and with a sender that is not a string
SenderLines ==
    {SenderLine(JString(sImpstats), JString(sH1), JNumber(42, 1)),
     SenderLine(JString(sImpstats), JString(sH2), JString(tOne)),
     SenderLine(Absent, JString(sH1), JString(tOneHalf)),
     SenderLine(JString(sImpstats), JString(sH1), JString(tBad)),
     SenderLine(JString(sImpstats), JString(sH1), JString(tInf)),
     SenderLine(JString(sImpstats), JString(sH1), JBool(TRUE)),
     SenderLine(JString(sImpstats), JString(sH1), Absent),
     SenderLine(Absent, Absent, JString(tText)),
     SenderLine(JString(sImpstats), Absent, JNumber(42, 1)),
     SenderLine(JString(sImpstats), JNumber(7, 1), JString(tOne))}

\* records of named counters, their fields of every value type
NamedLines ==
    {Line({<<NameField, JString(sMainQ)>>, <<OriginField, JString(sCoreQueue)>>,
           <<kSize, v>>, <<kFull, w>>}) :
        v \in {JNumber(1, 1), JNumber(25, 10), JBool(TRUE)},
        w \in {Absent, JNumber(7, 1), JNull}}
    \cup
    {Line({<<NameField, JString(sOmkafka)>>, <<kSubmitted, JNumber(9, 1)>>,
           <<kAcked, JString(tFour)>>}),
     Line({<<NameField, JString(sOmkafka)>>, <<kSubmitted, JNumber(9, 1)>>,
           <<kFailed, JObject(EmptyMap)>>, <<kAcked, JString(tBad)>>}),
     Line({<<NameField, JString(sOmkafka)>>, <<OriginField, JString(sCoreQueue)>>,
           <<kFailed, JArray>>, <<kAcked, JString(tFour)>>})}

DynstatsLine(name, origin, values) ==
    Line({<<NameField, JString(name)>>, <<OriginField, JString(origin)>>,
          <<sValues, values>>})

\* dynstats records: values absent, of another type, and with entries of
\* several value types
DynstatsGlobalLines ==
    {DynstatsLine(sGlobal, sDynstats, v) :
        v \in {JObject(MapOf({<<kFacAdd, JNumber(4, 1)>>})),
               JObject(MapOf({<<kFacAdd, JNumber(1, 1)>>,
                              <<kFacOps, JNumber(2, 1)>>,
                              <<kSevAdd, JNumber(3, 1)>>})),
               JObject(EmptyMap),
               Absent,
               JString(tText),
               JObject(MapOf({<<kFacAdd, JNumber(1, 1)>>,
                              <<kFacOps, JString(tText)>>})),
               JObject(MapOf({<<kFacAdd, JBool(TRUE)>>})),
               JObject(MapOf({<<kFacAdd, JString(tOne)>>})),
               JObject(MapOf({<<kFacAdd, JNumber(1, 1)>>,
                              <<kNoDot, JNumber(2, 1)>>}))}}
    \cup
    {DynstatsLine(sSenderStat, sDynstats,
                  JObject(MapOf({<<kFacAdd, JNumber(4, 1)>>})))}

DynstatsBucketLines ==
    {DynstatsLine(sFacility, sDynstatsBucket, v) :
        v \in {JObject(MapOf({<<kMail, JNumber(1, 1)>>,
                              <<kAuth, JNumber(2, 1)>>})),
               JObject(MapOf({<<kMail, JNumber(3, 1)>>})),
               Absent,
               JArray,
               JObject(MapOf({<<kMail, JNumber(1, 1)>>,
                              <<kAuth, JNull>>}))}}

\* records whose names, origins and keys are not metric-name tokens: upper
\* case, punctuation, underscores at either end, empty strings
AwkwardLines ==
    {Line({<<NameField, JString(sMainQ)>>, <<OriginField, JString(sOddOrigin)>>,
           <<kBangs, JNumber(1, 1)>>, <<kAccent, JNumber(2, 1)>>}),
     Line({<<NameField, JString(sMainQ)>>, <<OriginField, JString(sEmpty)>>,
           <<sEmpty, JNumber(3, 1)>>}),
     DynstatsLine(sOddName, sDynstats,
                  JObject(MapOf({<<kFacDot, JNumber(1, 1)>>,
                                 <<kDotAdd, JNumber(2, 1)>>}))),
     DynstatsLine(sUnderscore, sDynstatsBucket,
                  JObject(MapOf({<<kMail, JNumber(1, 1)>>})))}

\* records in which two keys give the same metric name and label
CollidingLines ==
    {Line({<<NameField, JString(sMainQ)>>, <<OriginField, JString(sCoreQueue)>>,
           <<kADotB, JNumber(1, 1)>>, <<kAUnderB, JNumber(2, 1)>>}),
     DynstatsLine(sGlobal, sDynstats,
                  JObject(MapOf({<<kFacAdd, JNumber(1, 1)>>,
                                 <<kFacAddUpper, JNumber(2, 1)>>})))}

\* a record of named counters whose origin and field give the metric name
\* of the _sender_stat records
CrossShapeLines ==
    {Line({<<NameField, JString(sMainQ)>>, <<OriginField, JString(sSenderStat)>>,
           <<sMessages, JNumber(5, 1)>>})}

\* the lines the syslog channel may deliver
Lines ==
    UndecodableLines \cup UnidentifiedLines \cup SenderLines \cup NamedLines
    \cup DynstatsGlobalLines \cup DynstatsBucketLines \cup AwkwardLines
    \cup CollidingLines \cup CrossShapeLines

(* ---- state ---- *)
VARIABLES
    Metrics,         \* rs.Metrics
    ParserFailures,  \* rs.ParserFailures
    ParsedMessages,  \* rs.ParsedMessages
    ParseTimestamp,  \* rs.ParseTimestamp
    writer,          \* rs.RWMutex is held for writing
    readers,         \* number of holders of rs.RWMutex for reading
    now,             \* time.Now().Unix()
    calls,           \* lines taken from the channel so far
    ppc,             \* where the producer goroutine is
    statLine,        \* argument of the current or latest Parse call
    identified,      \* Parse: name, origin, rsType, err that identify returned
    logged,          \* errors that call has passed to failToParse
    errs,            \* Parse: errors of the parser not yet reported
    m,               \* Parse: the batch the parser returned
    todo,            \* add: metric names range has not visited yet
    metric,          \* add: metric name of the current iteration
    todoLabels,      \* add: labels the inner range has not visited yet
    cpc,             \* where the goroutine serving a scrape is
    ch,              \* samples Collect has sent in the current scrape
    scrapes,         \* scrapes served so far
    text,            \* argument of the latest sanitiseMetricName call
    token            \* what that call returned

rsVars ==
    <<Metrics, ParserFailures, ParsedMessages, ParseTimestamp>>

lockVars ==
    <<writer, readers>>

parseVars ==
    <<errs, m, todo, metric>>

collectVars ==
    <<cpc, ch, scrapes>>

sanVars ==
    <<text, token>>

vars ==
    <<Metrics, ParserFailures, ParsedMessages, ParseTimestamp, writer,
      readers, now, calls, ppc, statLine, identified, logged, errs, m, todo, metric,
      cpc, ch, scrapes, text, token, todoLabels>>

\* the locals of Parse before identify has run
NotIdentified ==
    [name |-> <<>>, origin |-> <<>>, st |-> rtDefault, e |-> "nil"]

\* NewRsyslogStats, and both goroutines at the top of their loops
Init ==
    /\ Metrics = EmptyMap
    /\ ParserFailures = 0
    /\ ParsedMessages = 0
    /\ ParseTimestamp = 0
    /\ writer = FALSE
    /\ readers = 0
    /\ now = 1
    /\ calls = 0
    /\ ppc = "recv"
    /\ statLine = JInvalid
    /\ identified = NotIdentified
    /\ logged = <<>>
    /\ errs = <<>>
    /\ m = EmptyMap
    /\ todo = {}
    /\ metric = <<>>
    /\ todoLabels = {}
    /\ cpc = "idle"
    /\ ch = {}
    /\ scrapes = 0
    /\ text = <<>>
    /\ token = <<>>

(* ---- add ---- *)
\* addBucket accumulating onto the value a label already has
addBucketSum(table, name, data) ==
    LET old == IF name \in DOMAIN table THEN table[name] ELSE EmptyMap
    IN  IF data = EmptyMap THEN table
        ELSE (name :> [l \in DOMAIN data \cup DOMAIN old |->
                         IF l \notin DOMAIN data THEN old[l]
                         ELSE IF l \in DOMAIN old THEN old[l] + data[l]
                         ELSE data[l]])
             @@ table

\* addBucket replacing the bucket of the metric by the labels of the batch
addBucketReplace(table, name, data) ==
    IF data = EmptyMap THEN table
    ELSE (name :> data) @@ table

\* one iteration of the outer loop of add, between Lock and Unlock
addBucket(table, name, data) ==
    IF data = EmptyMap THEN table
    ELSE (name :> (data @@ (IF name \in DOMAIN table THEN table[name]
                            ELSE EmptyMap)))
         @@ table

\* the whole of add; the buckets of a batch have distinct names, so the
\* order of the outer loop does not show in the result
RECURSIVE addNames(_, _, _)
addNames(table, batch, names) ==
    IF names = {} THEN table
    ELSE LET name == CHOOSE n \in names : TRUE
         IN  addNames(addBucket(table, name, batch[name]), batch,
                      names \ {name})

add(table, batch) ==
    addNames(table, batch, DOMAIN batch)

(* ---- Parse up to the call of add ---- *)

\* decode, identify, run the parser: what Parse has in hand before it
\* touches the shared state
Extract(line, order, arch) ==
    LET u == Unmarshal(line)
        id == identify(u.data)
        r == parsersByType(id.st, id.name, id.origin, u.data, order, arch)
    IN  IF u.err # "nil"
        THEN [outcome |-> "failed", id |-> NotIdentified, errs |-> <<u.err>>,
              m |-> EmptyMap]
        ELSE IF id.e # "nil"
        THEN [outcome |-> "failed", id |-> id, errs |-> <<id.e>>,
              m |-> EmptyMap]
        ELSE IF r.panic
        THEN [outcome |-> "panic", id |-> id, errs |-> <<>>, m |-> EmptyMap]
        ELSE [outcome |-> "parsed", id |-> id, errs |-> r.errs, m |-> r.m]

\* the orders in which the parser of a line may visit the fields it ranges over
LineOrders(line) ==
    LET u == Unmarshal(line)
    IN  Orders(RangedMap(identify(u.data).st, u.data))

\* failToParse without its increment
failToParseUncounted(failures) ==
    failures

\* failToParse counting an error twice
failToParseTwice(failures) ==
    failures + 2

\* rs.ParserFailures++ of failToParse
failToParse(failures) ==
    failures + 1

\* for _, e := range errs { rs.failToParse(e, statLine) }
RECURSIVE failEach(_, _)
failEach(failures, es) ==
    IF es = <<>> THEN failures
    ELSE failEach(failToParse(failures), Tail(es))

\* every line with every result its parser may hand to Parse
ParseCases ==
    UNION {{[line |-> l, x |-> Extract(l, o, a)] :
               o \in LineOrders(l), a \in Archs} : l \in Lines}

(* ---- the producer, one Parse call a step ---- *)
\* processSyslogMessages takes a line and Parse handles it to its end; a
\* panic in Parse is not recovered and ends the process
Parse(line, x) ==
        /\ ppc = "recv"
        /\ calls < MaxCalls
        /\ calls' = calls + 1
        /\ statLine' = line
        /\ identified' = x.id
        /\ logged' = x.errs
        /\ m' = x.m
        /\ CASE x.outcome = "panic" ->
                  /\ ppc' = "crashed"
                  /\ UNCHANGED rsVars
             [] x.outcome = "failed" ->
                  /\ ppc' = "recv"
                  /\ ParserFailures' = failToParse(ParserFailures)
                  /\ UNCHANGED <<Metrics, ParsedMessages, ParseTimestamp>>
             [] x.outcome = "parsed" ->
                  /\ ppc' = "recv"
                  /\ ParserFailures' = failEach(ParserFailures, x.errs)
                  /\ Metrics' = add(Metrics, x.m)
                  /\ ParsedMessages' = ParsedMessages + 1
                  /\ ParseTimestamp' = now
        /\ UNCHANGED <<sanVars, todoLabels, lockVars, now, errs, todo, metric, collectVars>>

\* the clock advances
Tick ==
    /\ now < MaxTime
    /\ now' = now + 1
    /\ UNCHANGED <<sanVars, todoLabels, rsVars, lockVars, calls, ppc, statLine, identified, logged,
                   parseVars, collectVars>>

Next ==
    \/ \E c \in ParseCases : Parse(c.line, c.x)
    \/ Tick

Spec ==
    Init /\ [][Next]_vars
(* ---- the collector ---- *)
sCoreQueueSize ==
    <<"r", "s", "y", "s", "l", "o", "g", "_", "c", "o", "r", "e", "_", "q", "u", "e", "u", "e", "_", "s", "i", "z", "e">>

sParserFailures ==
    <<"r", "s", "y", "s", "l", "o", "g", "_", "e", "x", "p", "o", "r", "t", "e", "r", "_", "p", "a", "r", "s", "e", "r", "_", "f", "a", "i", "l", "u", "r", "e", "s">>

sParsedMessages ==
    <<"r", "s", "y", "s", "l", "o", "g", "_", "e", "x", "p", "o", "r", "t", "e", "r", "_", "p", "a", "r", "s", "e", "d", "_", "m", "e", "s", "s", "a", "g", "e", "s">>

sParseTimestamp ==
    <<"r", "s", "y", "s", "l", "o", "g", "_", "e", "x", "p", "o", "r", "t", "e", "r", "_", "p", "a", "r", "s", "e", "_", "t", "i", "m", "e", "s", "t", "a", "m", "p">>

\* prometheus.MustNewConstMetric(NewDesc(name, "", labelNames, nil), mType,
\* float64(value), labelValues...)
ConstMetric(name, labelNames, mType, value, labelValues) ==
    [name |-> name, labelNames |-> labelNames, mType |-> mType,
     value |-> value, labelValues |-> labelValues]

\* the loops of Collect sending one sample for a metric name, not one for
\* each of its labels
TableSamplesPerName(table) ==
    {LET labels == CHOOSE l \in DOMAIN table[metricName] : TRUE
     IN  ConstMetric(metricName, <<labels.Name>>,
                     IF metricName = sCoreQueueSize THEN "GaugeValue"
                     ELSE "CounterValue",
                     table[metricName][labels], <<labels.Value>>) :
        metricName \in DOMAIN table}

\* the samples the loops of Collect send for a table
TableSamples(table) ==
    UNION {{ConstMetric(metricName, <<labels.Name>>,
                        IF metricName = sCoreQueueSize THEN "GaugeValue"
                        ELSE "CounterValue",
                        table[metricName][labels], <<labels.Value>>) :
               labels \in DOMAIN table[metricName]} :
           metricName \in DOMAIN table}

(* ---- the producer and the collector, one shared access a step ---- *)
\* the lines of the runs in which the two goroutines interleave
ConcLines ==
    {JInvalid,
     Line({<<NameField, JString(sMainQ)>>, <<OriginField, JString(sCoreQueue)>>,
           <<kSize, JNumber(1, 1)>>, <<kFull, JNumber(7, 1)>>}),
     Line({<<NameField, JString(sMainQ)>>, <<OriginField, JString(sCoreQueue)>>,
           <<kSize, JBool(TRUE)>>, <<kFull, JNumber(7, 1)>>}),
     SenderLine(JString(sImpstats), JString(sH1), JNumber(42, 1)),
     SenderLine(JString(sImpstats), JString(sH1), JString(tBad)),
     DynstatsLine(sGlobal, sDynstats,
                  JObject(MapOf({<<kFacAdd, JNumber(1, 1)>>,
                                 <<kFacOps, JNumber(2, 1)>>,
                                 <<kSevAdd, JNumber(3, 1)>>}))),
     DynstatsLine(sGlobal, sDynstats, Absent)}

ConcCases ==
    {c \in ParseCases : c.line \in ConcLines}

\* Parse going on to its counters whatever is left of the batch
AfterErrsSkipAdd(names) ==
    "account"

\* where Parse continues once the errors are reported: add, or past it when
\* the batch is empty
AfterErrs(names) ==
    IF names = {} THEN "account" ELSE "add"

\* Parse from json.Unmarshal to the return of the parser: no shared state
\* is touched
Recv(line, x) ==
    /\ ppc = "recv"
    /\ calls < MaxCalls
    /\ calls' = calls + 1
    /\ statLine' = line
    /\ identified' = x.id
    /\ logged' = <<>>
    /\ errs' = x.errs
    /\ m' = x.m
    /\ todo' = DOMAIN x.m
    /\ ppc' = CASE x.outcome = "panic" -> "crashed"
                [] x.outcome = "failed" -> "fail"
                [] x.outcome = "parsed" ->
                     IF x.errs # <<>> THEN "errs" ELSE AfterErrs(DOMAIN x.m)
    /\ UNCHANGED <<sanVars, todoLabels, rsVars, lockVars, now, metric, collectVars>>

\* return rs.failToParse(err, statLine)
FailRecord ==
    /\ ppc = "fail"
    /\ ParserFailures' = failToParse(ParserFailures)
    /\ logged' = Append(logged, Head(errs))
    /\ errs' = Tail(errs)
    /\ ppc' = "recv"
    /\ UNCHANGED <<sanVars, todoLabels, Metrics, ParsedMessages, ParseTimestamp, lockVars, now,
                   calls, statLine, identified, m, todo, metric, collectVars>>

\* one iteration of: for _, e := range errs { rs.failToParse(e, statLine) }
FailField ==
    /\ ppc = "errs"
    /\ ParserFailures' = failToParse(ParserFailures)
    /\ logged' = Append(logged, Head(errs))
    /\ errs' = Tail(errs)
    /\ ppc' = IF Tail(errs) # <<>> THEN "errs" ELSE AfterErrs(todo)
    /\ UNCHANGED <<sanVars, todoLabels, Metrics, ParsedMessages, ParseTimestamp, lockVars, now,
                   calls, statLine, identified, m, todo, metric, collectVars>>

\* add: range picks the next metric of the batch; rs.Lock()
AddLock(name) ==
    /\ ppc = "add"
    /\ name \in todo
    /\ ~writer /\ readers = 0
    /\ writer' = TRUE
    /\ metric' = name
    /\ todo' = todo \ {name}
    /\ todoLabels' = DOMAIN m[name]
    /\ ppc' = "locked"
    /\ UNCHANGED <<sanVars, rsVars, readers, now, calls, statLine,
                   identified, logged, errs, m, collectVars>>

\* add: one iteration of the inner loop stores one label of the metric
AddStore(l) ==
    /\ ppc = "locked"
    /\ l \in todoLabels
    /\ Metrics' = addBucket(Metrics, metric, l :> m[metric][l])
    /\ todoLabels' = todoLabels \ {l}
    /\ ppc' = IF todoLabels = {l} THEN "unlock" ELSE "locked"
    /\ UNCHANGED <<sanVars, ParserFailures, ParsedMessages, ParseTimestamp,
                   lockVars, now, calls, statLine, identified, logged,
                   parseVars, collectVars>>

\* add: rs.Unlock()
AddUnlock ==
    /\ ppc = "unlock"
    /\ writer' = FALSE
    /\ ppc' = AfterErrs(todo)
    /\ UNCHANGED <<sanVars, todoLabels, rsVars, readers, now, calls, statLine, identified, logged,
                   parseVars, collectVars>>

\* rs.ParsedMessages++
Account ==
    /\ ppc = "account"
    /\ ParsedMessages' = ParsedMessages + 1
    /\ ppc' = "stamp"
    /\ UNCHANGED <<sanVars, todoLabels, Metrics, ParserFailures, ParseTimestamp, lockVars, now,
                   calls, statLine, identified, logged, parseVars,
                   collectVars>>

\* rs.ParseTimestamp = time.Now().Unix()
Stamp ==
    /\ ppc = "stamp"
    /\ ParseTimestamp' = now
    /\ ppc' = "recv"
    /\ UNCHANGED <<sanVars, todoLabels, Metrics, ParserFailures, ParsedMessages, lockVars, now,
                   calls, statLine, identified, logged, parseVars,
                   collectVars>>

producerVars ==
    <<calls, ppc, statLine, identified, logged, parseVars>>

\* a scrape that starts without waiting for the writer to unlock
CollectRLockNoWait ==
    /\ cpc = "idle"
    /\ ppc # "crashed"
    /\ scrapes < MaxScrapes
    /\ readers' = readers + 1
    /\ ch' = {}
    /\ cpc' = "rlocked"
    /\ UNCHANGED <<sanVars, todoLabels, rsVars, writer, now, producerVars,
                   scrapes>>

\* a scrape starts: rsc.RS.RLock()
CollectRLock ==
    /\ cpc = "idle"
    /\ ppc # "crashed"
    /\ scrapes < MaxScrapes
    /\ ~writer
    /\ readers' = readers + 1
    /\ ch' = {}
    /\ cpc' = "rlocked"
    /\ UNCHANGED <<sanVars, todoLabels, rsVars, writer, now, producerVars, scrapes>>

\* the loops over rsc.RS.Metrics
CollectRange ==
    /\ cpc = "rlocked"
    /\ ppc # "crashed"
    /\ ch' = ch \cup TableSamples(Metrics)
    /\ cpc' = "runlock"
    /\ UNCHANGED <<sanVars, todoLabels, rsVars, lockVars, now, producerVars, scrapes>>

\* rsc.RS.RUnlock()
CollectRUnlock ==
    /\ cpc = "runlock"
    /\ ppc # "crashed"
    /\ readers' = readers - 1
    /\ cpc' = "failures"
    /\ UNCHANGED <<sanVars, todoLabels, rsVars, writer, now, producerVars, ch, scrapes>>

\* export internal counters: float64(rsc.RS.ParserFailures)
CollectFailures ==
    /\ cpc = "failures"
    /\ ppc # "crashed"
    /\ ch' = ch \cup {ConstMetric(sParserFailures, <<>>, "CounterValue",
                                  ParserFailures, <<>>)}
    /\ cpc' = "parsed"
    /\ UNCHANGED <<sanVars, todoLabels, rsVars, lockVars, now, producerVars, scrapes>>

\* float64(rsc.RS.ParsedMessages)
CollectParsed ==
    /\ cpc = "parsed"
    /\ ppc # "crashed"
    /\ ch' = ch \cup {ConstMetric(sParsedMessages, <<>>, "CounterValue",
                                  ParsedMessages, <<>>)}
    /\ cpc' = "timestamp"
    /\ UNCHANGED <<sanVars, todoLabels, rsVars, lockVars, now, producerVars, scrapes>>

\* float64(rsc.RS.ParseTimestamp); Collect returns
CollectTimestamp ==
    /\ cpc = "timestamp"
    /\ ppc # "crashed"
    /\ ch' = ch \cup {ConstMetric(sParseTimestamp, <<>>, "CounterValue",
                                  ParseTimestamp, <<>>)}
    /\ cpc' = "idle"
    /\ scrapes' = scrapes + 1
    /\ UNCHANGED <<sanVars, todoLabels, rsVars, lockVars, now, producerVars>>

NextConc ==
    \/ \E c \in ConcCases : Recv(c.line, c.x)
    \/ FailRecord
    \/ FailField
    \/ \E name \in todo : AddLock(name)
    \/ \E l \in todoLabels : AddStore(l)
    \/ AddUnlock
    \/ Account
    \/ Stamp
    \/ CollectRLock
    \/ CollectRange
    \/ CollectRUnlock
    \/ CollectFailures
    \/ CollectParsed
    \/ CollectTimestamp
    \/ Tick

SpecConc ==
    Init /\ [][NextConc]_vars

\* the steps of a Parse call that has started
ProducerStep ==
    \/ FailRecord
    \/ FailField
    \/ \E name \in todo : AddLock(name)
    \/ \E l \in todoLabels : AddStore(l)
    \/ AddUnlock
    \/ Account
    \/ Stamp

\* the steps of a Collect call that has started
CollectorStep ==
    \/ CollectRange
    \/ CollectRUnlock
    \/ CollectFailures
    \/ CollectParsed
    \/ CollectTimestamp

\* the scheduler runs each goroutine that can take a step; the consumer of
\* ch takes every sample, so no send blocks
SpecConcFair ==
    SpecConc /\ WF_vars(ProducerStep) /\ WF_vars(CollectorStep)

(* ---- sanitiseMetricName called on its own ---- *)
\* the characters of the texts: a lower and an upper case letter, a digit,
\* the underscore, an ASCII character outside the class, one beyond ASCII
NameChars ==
    {"a", "B", "1", "_", "!", KelvinSign}

Texts ==
    UNION {[1..n -> NameChars] : n \in 0..MaxNameLen}

\* nn := sanitiseMetricName(name)
Sanitise(name) ==
    /\ text' = name
    /\ token' = sanitiseMetricName(name)
    /\ UNCHANGED <<rsVars, lockVars, now, calls, ppc, statLine, identified,
                   logged, parseVars, todoLabels, collectVars>>

NextSanitise ==
    \E name \in Texts : Sanitise(name)

SpecSanitise ==
    Init /\ [][NextSanitise]_vars

(* ---- the records the properties speak of, told from the line alone ---- *)
\* the field is present and is the string s
FieldIs(line, key, s) ==
    key \in DOMAIN line.m /\ line.m[key] = JString(s)

FieldIsString(line, key) ==
    key \in DOMAIN line.m /\ line.m[key].t = "string"

\* the texts of the input lines that are decimal numbers
NumericTexts ==
    {tOne, tOneHalf, tThree, tFour}

\* the texts that read as an infinity
InfiniteTexts ==
    {tInf}

\* a value that is a number or a text that reads as one
Coerces(value) ==
    \/ value.t = "float64"
    \/ value.t = "string" /\ value.s \in NumericTexts \cup InfiniteTexts

\* a value that coerces to a finite number
Numeric(value) ==
    Coerces(value) /\ (value.t = "string" => value.s \in NumericTexts)

\* the integer part of a number that coerces and is not negative
IntegerPart(value) ==
    IF value.t = "float64"
    THEN CHOOSE s \in 0..value.f.n :
            s * value.f.d <= value.f.n /\ value.f.n < (s + 1) * value.f.d
    ELSE CASE value.s = tOne     -> 1
           [] value.s = tOneHalf -> 1
           [] value.s = tThree   -> 3
           [] value.s = tFour    -> 4

\* the step in which Parse is called with a line
ParseStep ==
    calls' = calls + 1

\* a record that has neither the name field nor the origin field
LacksNameAndOrigin(line) ==
    /\ line.t = "map"
    /\ NameField \notin DOMAIN line.m
    /\ OriginField \notin DOMAIN line.m

OriginIsDynstats(line) ==
    FieldIs(line, OriginField, sDynstats)
    \/ FieldIs(line, OriginField, sDynstatsBucket)

\* a _sender_stat record
SenderStatRecord(line) ==
    /\ line.t = "map"
    /\ FieldIs(line, NameField, sSenderStat)
    /\ ~OriginIsDynstats(line)

\* a record of named counters: it has a name, and an origin of its own or
\* the one omkafka is given
NamedCountersRecord(line) ==
    /\ line.t = "map"
    /\ FieldIsString(line, NameField)
    /\ ~FieldIs(line, NameField, sSenderStat)
    /\ ~OriginIsDynstats(line)
    /\ FieldIsString(line, OriginField) \/ FieldIs(line, NameField, sOmkafka)

RecordName(line) ==
    line.m[NameField].s

RecordOrigin(line) ==
    IF FieldIsString(line, OriginField) THEN line.m[OriginField].s
    ELSE sOmkafka

CounterFields(line) ==
    DOMAIN line.m \ {NameField, OriginField}

ValidFields(line) ==
    {f \in CounterFields(line) : Coerces(line.m[f])}

InvalidFields(line) ==
    CounterFields(line) \ ValidFields(line)

\* a dynstats record whose values object has numeric entries and entries
\* that are no numbers
MixedDynstatsGlobalRecord(line) ==
    /\ line.t = "map"
    /\ FieldIsString(line, NameField)
    /\ FieldIs(line, OriginField, sDynstats)
    /\ sValues \in DOMAIN line.m
    /\ line.m[sValues].t = "map"
    /\ \E k \in DOMAIN line.m[sValues].m : line.m[sValues].m[k].t = "float64"
    /\ \E k \in DOMAIN line.m[sValues].m : ~Coerces(line.m[sValues].m[k])

(* ---- properties ---- *)
\* C1: a snapshot taken while Parse merges a record holds all of the
\* record's observations as soon as it holds any of the record's update,
\* also when the batch spans several metric names.
C1_SnapshotAllOrNone ==
    (cpc = "runlock" /\ ppc = "add" /\ todo # DOMAIN m)
        => TableSamples(m) \subseteq ch

\* C2: no input line stops the producer loop: Parse ends every call in
\* success or failure and the loop takes the next line.
C2_ProducerNeverStops ==
    ppc # "crashed"

\* C3: a _sender_stat record whose messages field does not coerce adds one
\* to the failure counter and leaves the parsed-record counter, the timestamp
\* and the Metric Table as they were.
C3_SenderStatFailure ==
    [][(/\ ParseStep
        /\ SenderStatRecord(statLine')
        /\ ~(sMessages \in DOMAIN statLine'.m
             /\ Coerces(statLine'.m[sMessages])))
       => /\ ParserFailures' = ParserFailures + 1
          /\ ParsedMessages' = ParsedMessages
          /\ ParseTimestamp' = ParseTimestamp
          /\ Metrics' = Metrics]_vars

\* C4: the three counters are written only while the lock is held for
\* writing and read by Collect only while it is held for reading.
C4_CountersUnderLock ==
    [][/\ (<<ParserFailures, ParsedMessages, ParseTimestamp>>'
             # <<ParserFailures, ParsedMessages, ParseTimestamp>>) => writer
       /\ (cpc \in {"failures", "parsed", "timestamp"} /\ cpc' # cpc)
             => readers > 0]_vars

\* C5: a line that does not decode as a JSON object adds one to the failure
\* counter and leaves the Metric Table, the parsed-record counter and the
\* timestamp unchanged.
C5_UndecodableLine ==
    [][(ParseStep /\ statLine'.t # "map")
       => /\ ParserFailures' = ParserFailures + 1
          /\ Metrics' = Metrics
          /\ ParsedMessages' = ParsedMessages
          /\ ParseTimestamp' = ParseTimestamp]_vars

\* a line that is no JSON object has been handled after a record was stored
C5_Witness ==
    /\ calls > 1
    /\ statLine.t # "map"
    /\ ParserFailures = 1
    /\ ParsedMessages = calls - 1
    /\ Metrics # EmptyMap

\* C6: a record with neither name nor origin adds exactly one to the failure
\* counter and leaves the Metric Table, the parsed-record counter and the
\* timestamp unchanged.
C6_MissingBothCountedOnce ==
    [][(ParseStep /\ LacksNameAndOrigin(statLine'))
       => /\ ParserFailures' = ParserFailures + 1
          /\ Metrics' = Metrics
          /\ ParsedMessages' = ParsedMessages
          /\ ParseTimestamp' = ParseTimestamp]_vars

\* such a record has been handled after a record was stored
C6_Witness ==
    /\ calls > 1
    /\ LacksNameAndOrigin(statLine)
    /\ ParserFailures = 1
    /\ ParsedMessages = calls - 1
    /\ Metrics # EmptyMap

\* C7: a record of named counters with k >= 1 fields that do not coerce adds
\* k to the failure counter and one to the parsed-record counter, sets the
\* timestamp, and stores an observation for every field that coerces.
C7_NamedCountersPartial ==
    [][(/\ ParseStep
        /\ NamedCountersRecord(statLine')
        /\ InvalidFields(statLine') # {})
       => LET line == statLine'
              l == RsyslogStatsLabels("name", RecordName(line))
              MetricOf(f) ==
                  sanitiseMetricName(
                      Join(Join(MetricPrefix, RecordOrigin(line)), f))
          IN  /\ ParserFailures'
                    = ParserFailures + Cardinality(InvalidFields(line))
              /\ ParsedMessages' = ParsedMessages + 1
              /\ ParseTimestamp' = now
              /\ ppc' = "recv"
              /\ \A f \in ValidFields(line) :
                    /\ MetricOf(f) \in DOMAIN Metrics'
                    /\ l \in DOMAIN Metrics'[MetricOf(f)]
                    /\ Metrics'[MetricOf(f)][l] \in
                          {IntegerPart(line.m[g]) :
                              g \in {h \in ValidFields(line) :
                                        MetricOf(h) = MetricOf(f)}}]_vars

\* a record with two invalid fields and a valid one has been handled
C7_Witness ==
    /\ calls > 0
    /\ NamedCountersRecord(statLine)
    /\ Cardinality(InvalidFields(statLine)) = 2
    /\ ValidFields(statLine) # {}
    /\ ParserFailures = 2
    /\ ParsedMessages = 1

\* C8: a dynstats record whose values object mixes numeric entries with
\* entries that are no numbers is not aborted: the parsed-record counter
\* goes up by one and the failure counter by one per rejected entry.
C8_DynstatsPartial ==
    [][(ParseStep /\ MixedDynstatsGlobalRecord(statLine'))
       => LET values == statLine'.m[sValues].m
          IN  /\ ppc' = "recv"
              /\ ParsedMessages' = ParsedMessages + 1
              /\ ParserFailures' = ParserFailures
                    + Cardinality({k \in DOMAIN values : ~Coerces(values[k])})
              /\ \A k \in {j \in DOMAIN values : values[j].t = "float64"} :
                    LET sp == splitRight(k)
                        mn == sanitiseMetricName(
                                  Join(Join(Join(MetricPrefix, sDynstats),
                                            RecordName(statLine')), sp.right))
                        l == RsyslogStatsLabels("counter", sp.left)
                    IN  /\ mn \in DOMAIN Metrics'
                        /\ l \in DOMAIN Metrics'[mn]]_vars

\* C9: for a record with a string name, identify returns the origin field,
\* else the origin the legacy rules give, else the missing-origin error; the
\* shape follows the origin first and the name second.
C9_Identify ==
    (calls > 0 /\ statLine.t = "map" /\ FieldIsString(statLine, NameField))
    => LET name == statLine.m[NameField].s
           id == identified
       IN  /\ id.name = name
           /\ IF FieldIsString(statLine, OriginField)
              THEN id.origin = statLine.m[OriginField].s /\ id.e = "nil"
              ELSE IF name = sOmkafka
              THEN id.origin = sOmkafka /\ id.e = "nil"
              ELSE IF name = sSenderStat
              THEN id.origin = sImpstats /\ id.e = "nil"
              ELSE id.e = ErrOriginField
           /\ id.st = IF id.origin = sDynstats THEN rtDynstatGlobal
                      ELSE IF id.origin = sDynstatsBucket THEN rtDynstatBucket
                      ELSE IF name = sSenderStat THEN rtSender
                      ELSE rtNamed

\* a _sender_stat record without origin has been identified by the legacy rule
C9_Witness ==
    /\ calls > 0
    /\ statLine.t = "map"
    /\ FieldIs(statLine, NameField, sSenderStat)
    /\ OriginField \notin DOMAIN statLine.m
    /\ identified.origin = sImpstats
    /\ identified.st = rtSender
    /\ identified.e = "nil"

\* C10: for a record with neither name nor origin the one error reported is
\* the missing-name error.
C10_NameErrorReported ==
    (calls > 0 /\ LacksNameAndOrigin(statLine)) => logged = <<ErrNameField>>

\* the (metric name, label) keys of a table or batch
Keys(table) ==
    UNION {{<<n, l>> : l \in DOMAIN table[n]} : n \in DOMAIN table}

ValueAt(table, key) ==
    table[key[1]][key[2]]

\* the step in which Parse merges a batch and counts the record
MergeStep ==
    ParseStep /\ ParsedMessages' = ParsedMessages + 1

\* C11: merging a batch into the table is a last-write-wins union: the keys
\* are those of the table and of the batch, a key of the batch holds the
\* value of the batch, any other key keeps its value; nothing is summed.
C11_MergeLastWriteWins ==
    [][MergeStep
       => /\ Keys(Metrics') = Keys(Metrics) \cup Keys(m')
          /\ \A key \in Keys(Metrics') :
                ValueAt(Metrics', key) =
                    IF key \in Keys(m') THEN ValueAt(m', key)
                    ELSE ValueAt(Metrics, key)]_vars

\* two batches were merged: the table holds the keys of the second with its
\* values, beside metric names of the first
C11_Witness ==
    /\ ParsedMessages = 2
    /\ m # EmptyMap
    /\ Keys(m) \subseteq Keys(Metrics)
    /\ \A key \in Keys(m) : ValueAt(Metrics, key) = ValueAt(m, key)
    /\ DOMAIN Metrics \ DOMAIN m # {}

\* C12: no step removes a key of the table, and no step changes the value
\* of a key that is not in the batch of the record Parse is handling.
C12_NoKeyPurged ==
    [][\A key \in Keys(Metrics) :
          /\ key \in Keys(Metrics')
          /\ (~ParseStep \/ key \notin Keys(m'))
                => ValueAt(Metrics', key) = ValueAt(Metrics, key)]_vars

\* a record was merged that reports the metric of an earlier record without
\* one of its labels, and the label is still there
C12_Witness ==
    /\ ParsedMessages = 2
    /\ \E n \in DOMAIN m : \E l \in DOMAIN Metrics[n] : l \notin DOMAIN m[n]

\* a sanitised token: not empty, of lower-case letters, digits and "_", no
\* "_" at either end and no two "_" in a row
ValidToken(s) ==
    /\ s # << >>
    /\ \A i \in DOMAIN s :
          s[i] \in Range(LowerLetters) \cup Range(Digits) \cup {"_"}
    /\ s[1] # "_"
    /\ s[Len(s)] # "_"
    /\ \A i \in 1..(Len(s) - 1) : ~(s[i] = "_" /\ s[i + 1] = "_")

\* C13: every metric name in the Metric Table is a valid sanitised token,
\* whatever the name, origin and keys of the records were.
C13_MetricNamesValid ==
    \A n \in DOMAIN Metrics : ValidToken(n)

\* the record whose origin ends in "_" and whose keys are punctuation and a
\* letter outside ASCII has been merged
C13_Witness ==
    /\ calls > 0
    /\ NamedCountersRecord(statLine)
    /\ RecordOrigin(statLine) = sOddOrigin
    /\ Cardinality(DOMAIN m) = 2
    /\ DOMAIN m \subseteq DOMAIN Metrics

\* the values object of a dynstats record, all of its entries numbers
NumericValues(line) ==
    /\ sValues \in DOMAIN line.m
    /\ line.m[sValues].t = "map"
    /\ \A k \in DOMAIN line.m[sValues].m : line.m[sValues].m[k].t = "float64"

\* a well-formed record of one of the four shapes: a dynstats record with a
\* values object of numbers (its keys <counter>.<subfield> for the global
\* one), a _sender_stat record with a sender and messages that coerce, a
\* record of named counters whose fields all coerce
WellFormed(line) ==
    /\ line.t = "map"
    /\ FieldIsString(line, NameField)
    /\ \/ /\ FieldIs(line, OriginField, sDynstats)
          /\ NumericValues(line)
          /\ \A k \in DOMAIN line.m[sValues].m : \E i \in DOMAIN k : k[i] = "."
       \/ /\ FieldIs(line, OriginField, sDynstatsBucket)
          /\ NumericValues(line)
       \/ /\ SenderStatRecord(line)
          /\ FieldIsString(line, sSender)
          /\ sMessages \in DOMAIN line.m
          /\ Numeric(line.m[sMessages])
       \/ /\ NamedCountersRecord(line)
          /\ InvalidFields(line) = {}

\* the observations <<metric name, label, value>> of a well-formed record,
\* by the rules of its shape
Observations(line) ==
    LET name == RecordName(line)
        San(s) == sanitiseMetricName(s)
    IN  IF FieldIs(line, OriginField, sDynstats)
        THEN {<<San(Join(Join(Join(MetricPrefix, sDynstats), name),
                         splitRight(k).right)),
                RsyslogStatsLabels("counter", splitRight(k).left),
                IntegerPart(line.m[sValues].m[k])>> :
                 k \in DOMAIN line.m[sValues].m}
        ELSE IF FieldIs(line, OriginField, sDynstatsBucket)
        THEN {<<San(Join(Join(MetricPrefix, sDynstatsBucket), name)),
                RsyslogStatsLabels("bucket", k),
                IntegerPart(line.m[sValues].m[k])>> :
                 k \in DOMAIN line.m[sValues].m}
        ELSE IF SenderStatRecord(line)
        THEN {<<San(Join(MetricPrefix, sSenderStatMessages)),
                RsyslogStatsLabels("sender", line.m[sSender].s),
                IntegerPart(line.m[sMessages])>>}
        ELSE {<<San(Join(Join(MetricPrefix, RecordOrigin(line)), f)),
                RsyslogStatsLabels("name", name),
                IntegerPart(line.m[f])>> : f \in CounterFields(line)}

\* C14: while only well-formed records have arrived, each further one is
\* counted as parsed, none as failed, and the table becomes the table before
\* it with the record's observations written over it.
C14_WellFormedSequence ==
    [][(/\ ParseStep
        /\ WellFormed(statLine')
        /\ ParsedMessages = calls
        /\ ParserFailures = 0)
       => LET obs == Observations(statLine')
              okeys == {<<o[1], o[2]>> : o \in obs}
          IN  /\ ParsedMessages' = calls'
              /\ ParserFailures' = 0
              /\ Keys(Metrics') = Keys(Metrics) \cup okeys
              /\ \A key \in Keys(Metrics') :
                    IF key \in okeys
                    THEN ValueAt(Metrics', key) \in
                            {o[3] : o \in {q \in obs : <<q[1], q[2]>> = key}}
                    ELSE ValueAt(Metrics', key) = ValueAt(Metrics, key)]_vars

\* two well-formed records of different shapes have been parsed in a row
C14_Witness ==
    /\ calls = 2
    /\ ParsedMessages = 2
    /\ ParserFailures = 0
    /\ WellFormed(statLine)
    /\ FieldIs(statLine, OriginField, sDynstatsBucket)
    /\ \E n \in DOMAIN Metrics :
          \E l \in DOMAIN Metrics[n] : l.Name = "sender"

\* the label dimensions of the four shapes
LabelAxes ==
    {"name", "counter", "bucket", "sender"}

InternalNames ==
    {sParserFailures, sParsedMessages, sParseTimestamp}

\* the samples of the channel that carry a label
Labelled(samples) ==
    {s \in samples : s.labelNames # <<>>}

\* the sample is the one of a (metric name, label) pair of the table
SampleOf(s, table) ==
    /\ Len(s.labelNames) = 1
    /\ Len(s.labelValues) = 1
    /\ s.labelNames[1] \in LabelAxes
    /\ LET key == <<s.name, RsyslogStatsLabels(s.labelNames[1],
                                               s.labelValues[1])>>
       IN  key \in Keys(table) /\ s.value = ValueAt(table, key)

\* C15: when the loops of Collect are done the channel holds one sample for
\* each (metric name, label) pair of the table and no other, each with one
\* label of the four axes; when Collect returns it holds besides them one
\* sample without labels for each of the three internal metrics.
C15_SnapshotSamples ==
    /\ cpc = "runlock"
          => /\ \A s \in ch : SampleOf(s, Metrics)
             /\ \A key \in Keys(Metrics) :
                   Cardinality({s \in ch : /\ s.name = key[1]
                                           /\ s.labelNames = <<key[2].Name>>
                                           /\ s.labelValues = <<key[2].Value>>})
                      = 1
    /\ cpc \in {"failures", "parsed", "timestamp"}
          => \A s \in Labelled(ch) : Len(s.labelNames) = 1
    /\ (cpc = "idle" /\ scrapes > 0)
          => /\ \A s \in Labelled(ch) :
                   Len(s.labelNames) = 1 /\ s.labelNames[1] \in LabelAxes
             /\ {s.name : s \in ch \ Labelled(ch)} = InternalNames
             /\ Cardinality(ch \ Labelled(ch)) = 3

\* a scrape has returned the samples of a metric with two labels and the
\* three internal ones
C15_Witness ==
    /\ cpc = "idle"
    /\ scrapes > 0
    /\ \E s, t \in Labelled(ch) : s.name = t.name /\ s.labelValues # t.labelValues
    /\ Cardinality(ch \ Labelled(ch)) = 3

\* lower case of an ASCII letter, any other character as it is
AsciiLower(c) ==
    IF c \in Range(UpperLetters)
    THEN LowerLetters[CHOOSE i \in DOMAIN UpperLetters : UpperLetters[i] = c]
    ELSE c

\* the text with every character outside [A-Za-z0-9_] made an underscore,
\* every run of underscores made one, those at the end dropped
RunsToUnderscore(s) ==
    TrimRightUnderscore(SquashUnderscores(
        [i \in DOMAIN s |-> IF s[i] \in WordChars THEN AsciiLower(s[i])
                            ELSE "_"]))

\* a token over [a-z0-9_] without two adjacent underscores or one at the end
CleanToken(s) ==
    /\ Range(s) \subseteq Range(LowerLetters) \cup Range(Digits) \cup {"_"}
    /\ \A i \in 1..(Len(s) - 1) : ~(s[i] = "_" /\ s[i + 1] = "_")
    /\ s = <<>> \/ s[Len(s)] # "_"

\* C16: sanitiseMetricName returns for every text a token over [a-z0-9_]
\* with no two adjacent underscores and none at the end, in which every run
\* of characters outside [A-Za-z0-9_] has become one underscore, and
\* sanitising the token again gives the token.
C16_SanitiseTotalIdempotent ==
    /\ CleanToken(token)
    /\ sanitiseMetricName(token) = token
    /\ token = RunsToUnderscore(text)

\* the number a value that coerces stands for, as a fraction n/d; d is 0
\* for an infinity
NumberOf(value) ==
    IF value.t = "float64" THEN value.f
    ELSE CASE value.s = tOne     -> [n |-> 1, d |-> 1]
           [] value.s = tOneHalf -> [n |-> 15, d |-> 10]
           [] value.s = tThree   -> [n |-> 3, d |-> 1]
           [] value.s = tFour    -> [n |-> 4, d |-> 1]
           [] value.s = tInf     -> [n |-> 1, d |-> 0]

\* s <= v < s + 1
Truncates(s, v) ==
    /\ v.d > 0
    /\ s * v.d <= v.n
    /\ v.n < (s + 1) * v.d

\* the values of a record its parser accepts: the entries of values of a
\* dynstats record, the fields that coerce of any other
AcceptedValues(line) ==
    IF OriginIsDynstats(line) \/ FieldIs(line, OriginField, sDynstatsBucket)
    THEN {line.m[sValues].m[k] : k \in DOMAIN line.m[sValues].m}
    ELSE {line.m[f] : f \in {g \in DOMAIN line.m : Coerces(line.m[g])}}

\* C17: whenever Parse has got a batch from a record, every value stored in
\* the batch is the integer part of a value of the record, none of them
\* negative: s <= v < s + 1.
C17_StoredTruncated ==
    (/\ calls > 0
     /\ ppc # "crashed"
     /\ statLine.t = "map"
     /\ identified # NotIdentified
     /\ identified.e = "nil")
       => /\ \A value \in AcceptedValues(statLine) : NumberOf(value).n >= 0
          /\ \A n \in DOMAIN m : \A l \in DOMAIN m[n] :
                \E value \in AcceptedValues(statLine) :
                    Truncates(m[n][l], NumberOf(value))

\* C18: the batch Parse has got from a record is the one its parser gives
\* in every order in which range may visit the fields, on one build; and so
\* is the table that comes of merging it.
C18_OrderIndependent ==
    (/\ calls > 0
     /\ ppc # "crashed"
     /\ statLine.t = "map"
     /\ identified # NotIdentified
     /\ identified.e = "nil")
       => \E arch \in Archs : \A order \in LineOrders(statLine) :
             /\ Extract(statLine, order, arch).m = m
             /\ add(Metrics, Extract(statLine, order, arch).m) = Metrics

\* C19: under fair scheduling every Parse call that has started gets back
\* to the wait for the next line, with the record failed or accounted, and
\* every Collect call that has started returns.
C19_CallsFinish ==
    /\ (ppc # "recv") ~> (ppc = "recv")
    /\ (cpc # "idle") ~> (cpc = "idle")

\* C20: whenever Parse has run the parser of a dynstats record whose values
\* are all numbers, so that range has handed keys of values to splitRight
\* until one made it panic, every key of values holds a ".": the index
\* splitRight slices at is never -1.
C20_SplitRightHasDot ==
    (/\ calls > 0
     /\ statLine.t = "map"
     /\ identified # NotIdentified
     /\ identified.e = "nil"
     /\ identified.st = rtDynstatGlobal
     /\ NumericValues(statLine))
       => \A k \in DOMAIN statLine.m[sValues].m :
             /\ LastIndexDot(k) >= 0
             /\ ~splitRight(k).panic

\* every observation of the batch in hand is in the table
BatchMerged ==
    \A key \in Keys(m) :
        key \in Keys(Metrics) /\ ValueAt(Metrics, key) = ValueAt(m, key)

\* C21: a step of Parse that counts the record as parsed or sets the
\* timestamp is taken only when add has gone through the whole batch: no
\* metric name is left to merge, the lock is released, and every
\* observation of the batch is in the table.
C21_MergedBeforeAccounted ==
    [][(ParsedMessages' # ParsedMessages \/ ParseTimestamp' # ParseTimestamp)
       => /\ todo = {}
          /\ ~writer
          /\ ppc \in {"account", "stamp"}
          /\ BatchMerged]_vars

\* a record whose batch spans two metric names has been merged and counted
C21_Witness ==
    /\ ppc = "stamp"
    /\ ParsedMessages > 0
    /\ Cardinality(DOMAIN m) >= 2
    /\ BatchMerged

\* C22: the lock is never held for writing and for reading at once; add
\* holds it for writing from before the first to after the last label of a
\* metric name, Collect holds it for reading while it ranges over the
\* table; so the samples of a snapshot taken while add is at work hold, for
\* every metric name add has been at, all the labels the batch has for it.
C22_BucketAtomic ==
    /\ ~(writer /\ readers > 0)
    /\ ppc \in {"locked", "unlock"} => writer
    /\ todoLabels # {} => writer
    /\ cpc \in {"rlocked", "runlock"} => readers > 0
    /\ (cpc = "runlock" /\ ppc \in {"add", "locked", "unlock"})
          => \A n \in DOMAIN m \ todo :
                TableSamples(n :> m[n]) \subseteq ch

\* a snapshot taken between two metric names of a record holds both labels
\* of the name add has been at
C22_Witness ==
    /\ cpc = "runlock"
    /\ ppc = "add"
    /\ todo # {}
    /\ \E n \in DOMAIN m \ todo :
          /\ Cardinality(DOMAIN m[n]) >= 2
          /\ TableSamples(n :> m[n]) \subseteq ch

\* C23: the labels stored under one metric name are all of one axis.
C23_OneAxisPerName ==
    \A n \in DOMAIN Metrics :
        \A k, l \in DOMAIN Metrics[n] : k.Name = l.Name
====
